---- MODULE Spec2Model ----
(***************************************************************************)
(* A model of aws_cost_manager.py: the AWSCostManager operations and main, *)
(* run against a model of the remote account (budgets, CloudWatch alarms,  *)
(* EC2 instances, ECS/ECR/EKS resources).  Every remote call is one step;  *)
(* a remote call may fail with a ClientError, the failure the code         *)
(* handles.  Each call is recorded in `calls`, each return in `results`.   *)
(***************************************************************************)
EXTENDS Integers, Sequences, FiniteSets, TLC

VARIABLES
    now,            \* datetime.datetime.now(): [year, month]
    monthly_budget, \* self.monthly_budget (a float with an integral value)
    email,          \* self.email
    budgets,        \* remote: budget name -> budget
    alarms,         \* remote: alarm name -> alarm configuration
    instances,      \* remote: instance id -> [state, env]
    ecsClusters,    \* remote: set of ECS cluster names
    ecsServices,    \* remote: set of <<cluster name, service name>>
    ecrRepos,       \* remote: set of repository names
    eksClusters,    \* remote: set of EKS cluster names
    eksNodegroups,  \* remote: set of <<cluster name, node group name>>
    policies,       \* remote: repository name -> lifecycle policy text
    queue,          \* per process: the operations still to be invoked
    pc,             \* per process: the next remote call ("idle" between operations)
    loc,            \* per process: the local variables of the running operation
    ninv,           \* number of operations invoked so far
    snap,           \* history: the remote state when each operation was invoked
    calls,          \* history: the remote calls issued, in order
    results         \* history: the operations' returns, in order

remote == <<budgets, alarms, instances, policies>>
topology == <<ecsClusters, ecsServices, ecrRepos, eksClusters, eksNodegroups>>
config == <<now, monthly_budget, email>>
vars == <<now, monthly_budget, email, budgets, alarms, instances, ecsClusters,
          ecsServices, ecrRepos, eksClusters, eksNodegroups, policies, queue, pc, loc, ninv,
          snap, calls, results>>

----------------------------------------------------------------------------
(* Bounds of the model *)

NumProcs == 2        \* simultaneous invocations of the script
NumInstances == 2    \* EC2 instances in the account
NumStale == 1        \* 'LowCPU-' alarms of instances that no longer exist

Procs == 1..NumProcs

----------------------------------------------------------------------------
(* Strings *)

Digit(d) ==
    CASE d = 0 -> "0" [] d = 1 -> "1" [] d = 2 -> "2" [] d = 3 -> "3"
      [] d = 4 -> "4" [] d = 5 -> "5" [] d = 6 -> "6" [] d = 7 -> "7"
      [] d = 8 -> "8" [] d = 9 -> "9"

RECURSIVE IntToStr(_)
IntToStr(n) == IF n < 10 THEN Digit(n) ELSE IntToStr(n \div 10) \o Digit(n % 10)

\* str(x) of a float with an integral value: str(100.0) = '100.0'
StrFloat(n) == IntToStr(n) \o ".0"

\* strftime("%Y-%m"): the year, then the month padded to two digits
StrftimeYm(d) ==
    IntToStr(d.year) \o "-" \o (IF d.month < 10 THEN "0" ELSE "") \o IntToStr(d.month)

BudgetName(d) == "monthly-budget-" \o StrftimeYm(d)

\* All orders in which a listing call may return the set S
Orders(S) ==
    {s \in [1..Cardinality(S) -> S] : \A i, j \in DOMAIN s : i # j => s[i] # s[j]}

Range(s) == {s[i] : i \in DOMAIN s}

----------------------------------------------------------------------------
(* The budget the operation sends *)

Thresholds == {50, 80, 100}

BudgetPayload(name, amount) ==
    [BudgetName |-> name,
     BudgetLimit |-> [Amount |-> StrFloat(amount), Unit |-> "USD"],
     TimeUnit |-> "MONTHLY",
     BudgetType |-> "COST"]

Notification(threshold, address) ==
    [ComparisonOperator |-> "GREATER_THAN",
     NotificationType |-> "ACTUAL",
     Threshold |-> threshold,
     ThresholdType |-> "PERCENTAGE",
     NotificationState |-> "ALARM",
     Subscribers |-> {[SubscriptionType |-> "EMAIL", Address |-> address]}]

Notifications(address) == {Notification(t, address) : t \in Thresholds}

\* next((b for b in existing_budgets if b['BudgetName'] == budget_name), None),
\* then its truth value in `if existing_budget:`
ExistingBudgetNone(listing, name) == FALSE
ExistingBudget(listing, name) == \E b \in listing : b = name

(* The Budgets service *)

\* create_budget: a new budget with its notifications
RemoteCreateBudget(bs, budget, notifs) ==
    (budget.BudgetName :> [budget |-> budget, notifications |-> notifs]) @@ bs

\* update_budget: replaces the budget, leaves its notifications as they are
RemoteUpdateBudget(bs, budget) ==
    [bs EXCEPT ![budget.BudgetName] = [budget |-> budget, notifications |-> @.notifications]]

----------------------------------------------------------------------------
(* Calls, returns and the local state of an operation *)

BoolOps == {"budget", "monitoring", "shutdown", "container"}

\* What the `except ClientError` clause of an operation returns
FailureReturnTrue(op) == IF op \in BoolOps THEN "True" ELSE "response"
FailureReturn(op) == IF op \in BoolOps THEN "False" ELSE "{}"

\* The outcomes of a remote call: "" is success
Outcomes == {"", "ClientError"}

\* `inv` numbers the invocation and `listed` keeps what describe_budgets showed;
\* the other fields are the operations' local variables
LocInit ==
    [inv |-> 0, op |-> "none", budget_name |-> "", existing_budget |-> FALSE,
     listed |-> "none",
     todo |-> <<>>, existing_alarm_names |-> {}, needed_alarms |-> {},
     instance_ids |-> <<>>,
     clusters |-> <<>>, cluster |-> "", services |-> <<>>, service |-> "",
     repo_name |-> "", nodegroups |-> <<>>]

Call(p, api, args, err) ==
    [p |-> p, inv |-> loc[p].inv, op |-> loc[p].op, api |-> api, args |-> args,
     dims |-> <<>>, err |-> err]

\* A put_metric_alarm call: its alarm name and the dimensions it sends
PutCall(p, cfg, err) ==
    [p |-> p, inv |-> loc[p].inv, op |-> loc[p].op, api |-> "put_metric_alarm",
     args |-> {cfg.AlarmName}, dims |-> cfg.Dimensions, err |-> err]

Return(p, ret) == [p |-> p, inv |-> loc[p].inv, op |-> loc[p].op, ret |-> ret]

\* The operation of process p returns ret
Finish(p, ret) ==
    /\ results' = Append(results, Return(p, ret))
    /\ pc' = [pc EXCEPT ![p] = "idle"]
    /\ UNCHANGED queue

\* Were the ClientError not caught by the operation: it reaches main's
\* `except Exception`, and the run ends
AbortRaises(p) ==
    /\ results' = Append(results, Return(p, "raise"))
    /\ pc' = [pc EXCEPT ![p] = "idle"]
    /\ queue' = [queue EXCEPT ![p] = <<>>]

\* A ClientError reaches the operation's `except ClientError` clause, which logs
\* it and returns; the caller goes on
Abort(p) ==
    /\ results' = Append(results, Return(p, FailureReturn(loc[p].op)))
    /\ pc' = [pc EXCEPT ![p] = "idle"]
    /\ UNCHANGED queue

Continue(p, label) ==
    /\ pc' = [pc EXCEPT ![p] = label]
    /\ UNCHANGED <<results, queue>>

\* The first remote call of each operation
FirstCall(op) ==
    CASE op = "budget" -> "describe_budgets"
      [] op = "monitoring" -> "mon_describe_instances"
      [] op = "shutdown" -> "shut_describe_instances"
      [] op = "container" -> "ecs_list_clusters"
      [] op = "cost" -> "get_cost_summary"
      [] op = "container_cost" -> "get_container_cost_summary"

\* The caller invokes its next operation
Invoke(p) ==
    /\ pc[p] = "idle"
    /\ queue[p] # <<>>
    /\ queue' = [queue EXCEPT ![p] = Tail(@)]
    /\ ninv' = ninv + 1
    /\ loc' = [loc EXCEPT ![p] = [LocInit EXCEPT !.inv = ninv + 1, !.op = Head(queue[p])]]
    /\ pc' = [pc EXCEPT ![p] = FirstCall(Head(queue[p]))]
    /\ snap' = Append(snap, [op |-> Head(queue[p]), budgets |-> budgets,
                             alarms |-> alarms, instances |-> instances])
    /\ UNCHANGED <<config, remote, topology, calls, results>>

----------------------------------------------------------------------------
(* create_or_update_budget_alert *)

\* describe_budgets; a ClientError is caught and leaves existing_budget = None
DescribeBudgets(p) ==
    /\ pc[p] = "describe_budgets"
    /\ \E err \in Outcomes :
        LET name == BudgetName(now)
            found == IF err = "" THEN ExistingBudget(DOMAIN budgets, name) ELSE FALSE
        IN /\ calls' = Append(calls, Call(p, "describe_budgets", {}, err))
           /\ loc' = [loc EXCEPT ![p].budget_name = name,
                                 ![p].existing_budget = found,
                                 ![p].listed = IF err # "" THEN "failed"
                                               ELSE IF name \in DOMAIN budgets
                                                    THEN "present" ELSE "absent"]
           /\ Continue(p, IF found THEN "update_budget" ELSE "create_budget")
    /\ UNCHANGED <<config, remote, topology, ninv, snap>>

UpdateBudget(p) ==
    /\ pc[p] = "update_budget"
    /\ \E e \in Outcomes :
        LET name == loc[p].budget_name
            budget == BudgetPayload(name, monthly_budget)
            err == IF e # "" THEN e
                   ELSE IF name \notin DOMAIN budgets THEN "NotFoundException" ELSE ""
        IN /\ calls' = Append(calls, Call(p, "update_budget", {name}, err))
           /\ budgets' = IF err = "" THEN RemoteUpdateBudget(budgets, budget) ELSE budgets
           /\ IF err = "" THEN Finish(p, "True") ELSE Abort(p)
    /\ UNCHANGED <<config, alarms, instances, policies, topology, loc, ninv, snap>>

CreateBudget(p) ==
    /\ pc[p] = "create_budget"
    /\ \E e \in Outcomes :
        LET name == loc[p].budget_name
            budget == BudgetPayload(name, monthly_budget)
            err == IF e # "" THEN e
                   ELSE IF name \in DOMAIN budgets THEN "DuplicateRecordException" ELSE ""
        IN /\ calls' = Append(calls, Call(p, "create_budget", {name}, err))
           /\ budgets' = IF err = ""
                         THEN RemoteCreateBudget(budgets, budget, Notifications(email))
                         ELSE budgets
           /\ IF err = "" THEN Finish(p, "True") ELSE Abort(p)
    /\ UNCHANGED <<config, alarms, instances, policies, topology, loc, ninv, snap>>

BudgetNext(p) == DescribeBudgets(p) \/ UpdateBudget(p) \/ CreateBudget(p)

----------------------------------------------------------------------------
(* EC2 and CloudWatch *)

InstanceIds == {"i-" \o IntToStr(k) : k \in 1..NumInstances}

\* Instances that were terminated: their alarms may still exist
StaleIds == {"i-" \o IntToStr(k) : k \in (NumInstances + 1)..(NumInstances + NumStale)}

StartsWith(s, prefix) ==
    Len(s) >= Len(prefix) /\ SubSeq(s, 1, Len(prefix)) = prefix

\* describe_instances: one filter holds of an instance
MatchesFilter(inst, f) ==
    CASE f.Name = "instance-state-name" -> inst.state \in f.Values
      [] f.Name = "tag:Environment" ->
            \E t \in inst.tags : t[1] = "Environment" /\ t[2] \in f.Values

\* describe_instances(Filters=...): the ids of the instances every filter holds of
RemoteDescribeInstances(insts, filters) ==
    {i \in DOMAIN insts : \A f \in filters : MatchesFilter(insts[i], f)}

\* describe_alarms(AlarmNamePrefix=...): the names of the alarms listed
RemoteDescribeAlarms(as, prefix) == {n \in DOMAIN as : StartsWith(n, prefix)}

\* put_metric_alarm: creates the alarm or replaces the one of that name
RemotePutMetricAlarm(as, cfg) == (cfg.AlarmName :> cfg) @@ as

\* delete_alarms
RemoteDeleteAlarms(as, names) == [n \in DOMAIN as \ names |-> as[n]]

\* stop_instances
RemoteStopInstances(insts, ids) ==
    [i \in DOMAIN insts |-> IF i \in ids THEN [insts[i] EXCEPT !.state = "stopping"]
                                         ELSE insts[i]]

MonitoringFilters == {[Name |-> "instance-state-name", Values |-> {"running"}]}

ShutdownValues == {"Development", "Testing", "Dev", "Test"}

ShutdownFiltersNoState == {[Name |-> "tag:Environment", Values |-> ShutdownValues]}
ShutdownFilters ==
    {[Name |-> "tag:Environment", Values |-> ShutdownValues],
     [Name |-> "instance-state-name", Values |-> {"running"}]}

InstanceAlarmName(instance_id) == "LowCPU-" \o instance_id

InstanceAlarm(instance_id) ==
    [AlarmName |-> InstanceAlarmName(instance_id),
     MetricName |-> "CPUUtilization",
     Namespace |-> "AWS/EC2",
     Dimensions |-> <<<<"InstanceId", instance_id>>>>,
     Period |-> 3600,
     EvaluationPeriods |-> 24,
     Threshold |-> 10,
     ComparisonOperator |-> "LessThanThreshold",
     Statistic |-> "Average"]

\* obsolete_alarms = existing_alarm_names - needed_alarms
ObsoleteAlarmsAll(existing, needed) == existing
ObsoleteAlarms(existing, needed) == existing \ needed

\* needed_alarms.add(alarm_name)
NeededAddNothing(needed, name) == needed
NeededAdd(needed, name) == needed \cup {name}

----------------------------------------------------------------------------
(* manage_resource_monitoring *)

\* After the loop: delete the obsolete alarms if there are any, then return True
MonAfterLoop(p, existing, needed) ==
    IF ObsoleteAlarms(existing, needed) # {}
    THEN Continue(p, "mon_delete_alarms")
    ELSE Finish(p, "True")

MonDescribeInstances(p) ==
    /\ pc[p] = "mon_describe_instances"
    /\ \E err \in Outcomes :
        /\ calls' = Append(calls, Call(p, "describe_instances", {}, err))
        /\ IF err = ""
           THEN /\ \E order \in Orders(RemoteDescribeInstances(instances, MonitoringFilters)) :
                      loc' = [loc EXCEPT ![p].todo = order]
                /\ Continue(p, "mon_describe_alarms")
           ELSE /\ Abort(p)
                /\ UNCHANGED loc
    /\ UNCHANGED <<config, remote, topology, ninv, snap>>

MonDescribeAlarms(p) ==
    /\ pc[p] = "mon_describe_alarms"
    /\ \E err \in Outcomes :
        /\ calls' = Append(calls, Call(p, "describe_alarms", {"LowCPU-"}, err))
        /\ IF err = ""
           THEN LET existing == RemoteDescribeAlarms(alarms, "LowCPU-")
                IN /\ loc' = [loc EXCEPT ![p].existing_alarm_names = existing,
                                         ![p].needed_alarms = {}]
                   /\ IF loc[p].todo # <<>>
                      THEN Continue(p, "mon_put_alarm")
                      ELSE MonAfterLoop(p, existing, {})
           ELSE /\ Abort(p)
                /\ UNCHANGED loc
    /\ UNCHANGED <<config, remote, topology, ninv, snap>>

\* One iteration of the loop over the running instances
MonPutAlarm(p) ==
    /\ pc[p] = "mon_put_alarm"
    /\ \E err \in Outcomes :
        LET instance_id == Head(loc[p].todo)
            cfg == InstanceAlarm(instance_id)
            needed == NeededAdd(loc[p].needed_alarms, cfg.AlarmName)
            rest == Tail(loc[p].todo)
        IN /\ calls' = Append(calls, PutCall(p, cfg, err))
           /\ loc' = [loc EXCEPT ![p].needed_alarms = needed, ![p].todo = rest]
           /\ IF err = ""
              THEN /\ alarms' = RemotePutMetricAlarm(alarms, cfg)
                   /\ IF rest # <<>>
                      THEN Continue(p, "mon_put_alarm")
                      ELSE MonAfterLoop(p, loc[p].existing_alarm_names, needed)
              ELSE /\ Abort(p)
                   /\ UNCHANGED alarms
    /\ UNCHANGED <<config, budgets, instances, policies, topology, ninv, snap>>

MonDeleteAlarms(p) ==
    /\ pc[p] = "mon_delete_alarms"
    /\ \E err \in Outcomes :
        LET obsolete == ObsoleteAlarms(loc[p].existing_alarm_names, loc[p].needed_alarms)
        IN /\ calls' = Append(calls, Call(p, "delete_alarms", obsolete, err))
           /\ IF err = ""
              THEN /\ alarms' = RemoteDeleteAlarms(alarms, obsolete)
                   /\ Finish(p, "True")
              ELSE /\ Abort(p)
                   /\ UNCHANGED alarms
    /\ UNCHANGED <<config, budgets, instances, policies, topology, loc, ninv, snap>>

MonitoringNext(p) ==
    \/ MonDescribeInstances(p)
    \/ MonDescribeAlarms(p)
    \/ MonPutAlarm(p)
    \/ MonDeleteAlarms(p)

----------------------------------------------------------------------------
(* manage_resource_shutdown *)

ShutDescribeInstances(p) ==
    /\ pc[p] = "shut_describe_instances"
    /\ \E err \in Outcomes :
        /\ calls' = Append(calls, Call(p, "describe_instances", {}, err))
        /\ IF err = ""
           THEN \E order \in Orders(RemoteDescribeInstances(instances, ShutdownFilters)) :
                   /\ loc' = [loc EXCEPT ![p].instance_ids = order]
                   /\ IF order # <<>>
                      THEN Continue(p, "stop_instances")
                      ELSE Finish(p, "True")
           ELSE /\ Abort(p)
                /\ UNCHANGED loc
    /\ UNCHANGED <<config, remote, topology, ninv, snap>>

StopInstances(p) ==
    /\ pc[p] = "stop_instances"
    /\ \E err \in Outcomes :
        LET ids == Range(loc[p].instance_ids)
        IN /\ calls' = Append(calls, Call(p, "stop_instances", ids, err))
           /\ IF err = ""
              THEN /\ instances' = RemoteStopInstances(instances, ids)
                   /\ Finish(p, "True")
              ELSE /\ Abort(p)
                   /\ UNCHANGED instances
    /\ UNCHANGED <<config, budgets, alarms, policies, topology, loc, ninv, snap>>

ShutdownNext(p) == ShutDescribeInstances(p) \/ StopInstances(p)

----------------------------------------------------------------------------
(* ECS, ECR and EKS *)

RECURSIVE LastIndexOf(_, _, _)
\* The largest i <= n with s[i] = ch, or 0
LastIndexOf(s, ch, n) ==
    IF n = 0 THEN 0
    ELSE IF SubSeq(s, n, n) = ch THEN n ELSE LastIndexOf(s, ch, n - 1)

\* s.split(ch)[-1]
SplitLast(s, ch) == SubSeq(s, LastIndexOf(s, ch, Len(s)) + 1, Len(s))

EcsClusterArn(cluster) == "arn:aws:ecs:us-east-1:123456789012:cluster/" \o cluster

EcsServiceArn(cluster, service) ==
    "arn:aws:ecs:us-east-1:123456789012:service/" \o cluster \o "/" \o service

\* list_clusters()['clusterArns']
RemoteEcsListClusters(clusters) == {EcsClusterArn(c) : c \in clusters}

\* list_services(cluster=cluster_arn)['serviceArns']
RemoteEcsListServices(services, cluster_arn) ==
    {EcsServiceArn(s[1], s[2]) : s \in {t \in services : EcsClusterArn(t[1]) = cluster_arn}}

\* describe_services(cluster=..., services=[service_arn])['services'][0]['serviceName']
RemoteEcsServiceName(services, service_arn) ==
    (CHOOSE s \in services : EcsServiceArn(s[1], s[2]) = service_arn)[2]

Alarm(name, metric, namespace, dimensions, period, evaluation, threshold, comparison, statistic) ==
    [AlarmName |-> name,
     MetricName |-> metric,
     Namespace |-> namespace,
     Dimensions |-> dimensions,
     Period |-> period,
     EvaluationPeriods |-> evaluation,
     Threshold |-> threshold,
     ComparisonOperator |-> comparison,
     Statistic |-> statistic]

EcsAlarmName(cluster_arn, serviceName) == "ECS-LowCPU-" \o serviceName

EcsAlarm(cluster_arn, serviceName) ==
    Alarm(EcsAlarmName(cluster_arn, serviceName), "CPUUtilization", "AWS/ECS",
          <<<<"ClusterName", SplitLast(cluster_arn, "/")>>, <<"ServiceName", serviceName>>>>,
          3600, 24, 10, "LessThanThreshold", "Average")

EcrAlarmName(repo_name) == "ECR-HighStorage-" \o repo_name

\* The threshold, 10 GB, is held in KiB: 10 * 1024^3 does not fit 32 bits
EcrAlarm(repo_name) ==
    Alarm(EcrAlarmName(repo_name), "RepositorySize", "AWS/ECR",
          <<<<"RepositoryName", repo_name>>>>,
          86400, 1, 10 * 1024 * 1024, "GreaterThanThreshold", "Maximum")

\* json.dumps(lifecycle_policy): the same text for every repository
LifecyclePolicyText == "untagged>14d:expire;tagged[v,release]>30:expire"

EksControlPlaneAlarmName(cluster_name) == "EKS-ControlPlane-" \o cluster_name

EksControlPlaneAlarm(cluster_name) ==
    Alarm(EksControlPlaneAlarmName(cluster_name), "cluster_failed_node_count",
          "ContainerInsights", <<<<"ClusterName", cluster_name>>>>,
          300, 3, 0, "GreaterThanThreshold", "Maximum")

EksNodegroupAlarmName(cluster_name, nodegroup_name) ==
    "EKS-NodeGroup-CPU-" \o cluster_name \o "-" \o nodegroup_name

EksNodegroupAlarm(cluster_name, nodegroup_name) ==
    Alarm(EksNodegroupAlarmName(cluster_name, nodegroup_name), "node_cpu_utilization",
          "ContainerInsights",
          <<<<"ClusterName", cluster_name>>, <<"NodeGroup", nodegroup_name>>>>,
          3600, 24, 20, "LessThanThreshold", "Average")

\* list_nodegroups(clusterName=cluster_name)['nodegroups']
RemoteEksListNodegroups(nodegroups, cluster_name) ==
    {n[2] : n \in {t \in nodegroups : t[1] = cluster_name}}

----------------------------------------------------------------------------
(* manage_container_resources: _manage_ecs_resources, _manage_ecr_resources, *)
(* _manage_eks_resources.  A ClientError in a sub-step is logged, re-raised  *)
(* and caught by manage_container_resources, which returns False.            *)

\* Where control goes with the locals l: [loc, pc], pc = "return" for `return True`
EcsAdvance(l) ==
    IF l.clusters # <<>>
    THEN [loc |-> [l EXCEPT !.cluster = Head(l.clusters), !.clusters = Tail(l.clusters)],
          pc |-> "ecs_list_services"]
    ELSE [loc |-> l, pc |-> "ecr_describe_repositories"]

EcrAdvance(l) ==
    IF l.todo # <<>>
    THEN [loc |-> [l EXCEPT !.repo_name = Head(l.todo)], pc |-> "ecr_put_lifecycle_policy"]
    ELSE [loc |-> l, pc |-> "eks_list_clusters"]

EksAdvance(l) ==
    IF l.clusters # <<>>
    THEN [loc |-> [l EXCEPT !.cluster = Head(l.clusters), !.clusters = Tail(l.clusters)],
          pc |-> "eks_describe_cluster"]
    ELSE [loc |-> l, pc |-> "return"]

Goto(p, adv) ==
    /\ loc' = [loc EXCEPT ![p] = adv.loc]
    /\ IF adv.pc = "return" THEN Finish(p, "True") ELSE Continue(p, adv.pc)

\* Were the sub-step's except clause to log without `raise`: the sub-step returns
\* and manage_container_resources goes on with the next one
RaiseSwallowed(p) ==
    /\ UNCHANGED loc
    /\ IF StartsWith(pc[p], "ecs") THEN Continue(p, "ecr_describe_repositories")
       ELSE IF StartsWith(pc[p], "ecr") THEN Continue(p, "eks_list_clusters")
       ELSE Finish(p, "True")

\* The sub-step's except clause logs and re-raises; manage_container_resources
\* catches the ClientError and returns False
Raise(p) ==
    /\ Abort(p)
    /\ UNCHANGED loc

EcsListClusters(p) ==
    /\ pc[p] = "ecs_list_clusters"
    /\ \E err \in Outcomes :
        /\ calls' = Append(calls, Call(p, "ecs.list_clusters", {}, err))
        /\ IF err = ""
           THEN \E order \in Orders(RemoteEcsListClusters(ecsClusters)) :
                   Goto(p, EcsAdvance([loc[p] EXCEPT !.clusters = order]))
           ELSE Raise(p)
    /\ UNCHANGED <<config, remote, topology, ninv, snap>>

EcsListServices(p) ==
    /\ pc[p] = "ecs_list_services"
    /\ \E err \in Outcomes :
        /\ calls' = Append(calls, Call(p, "ecs.list_services", {loc[p].cluster}, err))
        /\ IF err = ""
           THEN \E order \in Orders(RemoteEcsListServices(ecsServices, loc[p].cluster)) :
                   IF order # <<>>
                   THEN Goto(p, [loc |-> [loc[p] EXCEPT !.services = order],
                                 pc |-> "ecs_describe_services"])
                   ELSE Goto(p, EcsAdvance(loc[p]))
           ELSE Raise(p)
    /\ UNCHANGED <<config, remote, topology, ninv, snap>>

EcsDescribeServices(p) ==
    /\ pc[p] = "ecs_describe_services"
    /\ \E err \in Outcomes :
        LET service_arn == Head(loc[p].services)
        IN /\ calls' = Append(calls, Call(p, "ecs.describe_services", {service_arn}, err))
           /\ IF err = ""
              THEN Goto(p, [loc |-> [loc[p] EXCEPT !.service =
                                        RemoteEcsServiceName(ecsServices, service_arn)],
                            pc |-> "ecs_put_alarm"])
              ELSE Raise(p)
    /\ UNCHANGED <<config, remote, topology, ninv, snap>>

EcsPutAlarm(p) ==
    /\ pc[p] = "ecs_put_alarm"
    /\ \E err \in Outcomes :
        LET cfg == EcsAlarm(loc[p].cluster, loc[p].service)
            rest == Tail(loc[p].services)
        IN /\ calls' = Append(calls, PutCall(p, cfg, err))
           /\ IF err = ""
              THEN /\ alarms' = RemotePutMetricAlarm(alarms, cfg)
                   /\ IF rest # <<>>
                      THEN Goto(p, [loc |-> [loc[p] EXCEPT !.services = rest],
                                    pc |-> "ecs_describe_services"])
                      ELSE Goto(p, EcsAdvance([loc[p] EXCEPT !.services = rest]))
              ELSE /\ Raise(p)
                   /\ UNCHANGED alarms
    /\ UNCHANGED <<config, budgets, instances, policies, topology, ninv, snap>>

EcrDescribeRepositories(p) ==
    /\ pc[p] = "ecr_describe_repositories"
    /\ \E err \in Outcomes :
        /\ calls' = Append(calls, Call(p, "ecr.describe_repositories", {}, err))
        /\ IF err = ""
           THEN \E order \in Orders(ecrRepos) :
                   Goto(p, EcrAdvance([loc[p] EXCEPT !.todo = order]))
           ELSE Raise(p)
    /\ UNCHANGED <<config, remote, topology, ninv, snap>>

EcrPutLifecyclePolicy(p) ==
    /\ pc[p] = "ecr_put_lifecycle_policy"
    /\ \E err \in Outcomes :
        LET repo_name == loc[p].repo_name
        IN /\ calls' = Append(calls, Call(p, "ecr.put_lifecycle_policy", {repo_name}, err))
           /\ IF err = ""
              THEN /\ policies' = (repo_name :> LifecyclePolicyText) @@ policies
                   /\ Continue(p, "ecr_put_alarm")
              ELSE /\ Abort(p)
                   /\ UNCHANGED policies
    /\ UNCHANGED <<config, budgets, alarms, instances, topology, loc, ninv, snap>>

EcrPutAlarm(p) ==
    /\ pc[p] = "ecr_put_alarm"
    /\ \E err \in Outcomes :
        LET cfg == EcrAlarm(loc[p].repo_name)
        IN /\ calls' = Append(calls, PutCall(p, cfg, err))
           /\ IF err = ""
              THEN /\ alarms' = RemotePutMetricAlarm(alarms, cfg)
                   /\ Goto(p, EcrAdvance([loc[p] EXCEPT !.todo = Tail(@)]))
              ELSE /\ Raise(p)
                   /\ UNCHANGED alarms
    /\ UNCHANGED <<config, budgets, instances, policies, topology, ninv, snap>>

EksListClusters(p) ==
    /\ pc[p] = "eks_list_clusters"
    /\ \E err \in Outcomes :
        /\ calls' = Append(calls, Call(p, "eks.list_clusters", {}, err))
        /\ IF err = ""
           THEN \E order \in Orders(eksClusters) :
                   Goto(p, EksAdvance([loc[p] EXCEPT !.clusters = order]))
           ELSE Raise(p)
    /\ UNCHANGED <<config, remote, topology, ninv, snap>>

EksDescribeCluster(p) ==
    /\ pc[p] = "eks_describe_cluster"
    /\ \E err \in Outcomes :
        /\ calls' = Append(calls, Call(p, "eks.describe_cluster", {loc[p].cluster}, err))
        /\ IF err = "" THEN Continue(p, "eks_put_control_plane_alarm") ELSE Abort(p)
    /\ UNCHANGED <<config, remote, topology, loc, ninv, snap>>

EksPutControlPlaneAlarm(p) ==
    /\ pc[p] = "eks_put_control_plane_alarm"
    /\ \E err \in Outcomes :
        LET cfg == EksControlPlaneAlarm(loc[p].cluster)
        IN /\ calls' = Append(calls, PutCall(p, cfg, err))
           /\ IF err = ""
              THEN /\ alarms' = RemotePutMetricAlarm(alarms, cfg)
                   /\ Continue(p, "eks_list_nodegroups")
              ELSE /\ Abort(p)
                   /\ UNCHANGED alarms
    /\ UNCHANGED <<config, budgets, instances, policies, topology, loc, ninv, snap>>

EksListNodegroups(p) ==
    /\ pc[p] = "eks_list_nodegroups"
    /\ \E err \in Outcomes :
        /\ calls' = Append(calls, Call(p, "eks.list_nodegroups", {loc[p].cluster}, err))
        /\ IF err = ""
           THEN \E order \in Orders(RemoteEksListNodegroups(eksNodegroups, loc[p].cluster)) :
                   IF order # <<>>
                   THEN Goto(p, [loc |-> [loc[p] EXCEPT !.nodegroups = order],
                                 pc |-> "eks_put_nodegroup_alarm"])
                   ELSE Goto(p, EksAdvance(loc[p]))
           ELSE Raise(p)
    /\ UNCHANGED <<config, remote, topology, ninv, snap>>

EksPutNodegroupAlarm(p) ==
    /\ pc[p] = "eks_put_nodegroup_alarm"
    /\ \E err \in Outcomes :
        LET cfg == EksNodegroupAlarm(loc[p].cluster, Head(loc[p].nodegroups))
            rest == Tail(loc[p].nodegroups)
        IN /\ calls' = Append(calls, PutCall(p, cfg, err))
           /\ IF err = ""
              THEN /\ alarms' = RemotePutMetricAlarm(alarms, cfg)
                   /\ IF rest # <<>>
                      THEN Goto(p, [loc |-> [loc[p] EXCEPT !.nodegroups = rest],
                                    pc |-> "eks_put_nodegroup_alarm"])
                      ELSE Goto(p, EksAdvance([loc[p] EXCEPT !.nodegroups = rest]))
              ELSE /\ Raise(p)
                   /\ UNCHANGED alarms
    /\ UNCHANGED <<config, budgets, instances, policies, topology, ninv, snap>>

ContainerNext(p) ==
    \/ EcsListClusters(p)
    \/ EcsListServices(p)
    \/ EcsDescribeServices(p)
    \/ EcsPutAlarm(p)
    \/ EcrDescribeRepositories(p)
    \/ EcrPutLifecyclePolicy(p)
    \/ EcrPutAlarm(p)
    \/ EksListClusters(p)
    \/ EksDescribeCluster(p)
    \/ EksPutControlPlaneAlarm(p)
    \/ EksListNodegroups(p)
    \/ EksPutNodegroupAlarm(p)

----------------------------------------------------------------------------
(* get_cost_summary and get_container_cost_summary: one read-only query each *)

GetCostSummary(p) ==
    /\ pc[p] = "get_cost_summary"
    /\ \E err \in Outcomes :
        /\ calls' = Append(calls, Call(p, "ce.get_cost_and_usage", {"SERVICE"}, err))
        /\ IF err = "" THEN Finish(p, "response") ELSE Abort(p)
    /\ UNCHANGED <<config, remote, topology, loc, ninv, snap>>

GetContainerCostSummary(p) ==
    /\ pc[p] = "get_container_cost_summary"
    /\ \E err \in Outcomes :
        /\ calls' = Append(calls, Call(p, "ce.get_cost_and_usage",
                                       {"SERVICE", "USAGE_TYPE"}, err))
        /\ IF err = "" THEN Finish(p, "response") ELSE Abort(p)
    /\ UNCHANGED <<config, remote, topology, loc, ninv, snap>>

CostNext(p) == GetCostSummary(p) \/ GetContainerCostSummary(p)

----------------------------------------------------------------------------
(* main: the operations in their fixed order *)

MainOrder ==
    <<"budget", "monitoring", "shutdown", "container", "cost", "container_cost">>

----------------------------------------------------------------------------
(* Initial states *)

Dates == {[year |-> 2026, month |-> 11], [year |-> 2027, month |-> 3]}

\* A budget made outside this program: another limit, no notifications
ForeignBudget(name) == [budget |-> BudgetPayload(name, 50), notifications |-> {}]

\* A budget this program created in an earlier run, for another subscriber
EarlierBudget(name) ==
    [budget |-> BudgetPayload(name, 100), notifications |-> Notifications("old@example.com")]

BudgetStates ==
    UNION {[S -> {"foreign", "earlier"}] : S \in SUBSET {BudgetName(d) : d \in Dates}}

BudgetsOf(kinds) ==
    [n \in DOMAIN kinds |-> IF kinds[n] = "foreign" THEN ForeignBudget(n)
                                                     ELSE EarlierBudget(n)]

TagSets ==
    {{}, {<<"Name", "Dev">>}}
        \cup {{<<"Environment", v>>} :
                v \in {"Development", "Testing", "Dev", "Test", "Production", "dev"}}

\* The alarms present before the run
AlarmsOf(names) ==
    [n \in names |-> Alarm(n, "CPUUtilization", "AWS/EC2", <<>>, 300, 1, 5,
                           "LessThanThreshold", "Average")]

InitProcesses(q) ==
    /\ queue = q
    /\ pc = [p \in Procs |-> "idle"]
    /\ loc = [p \in Procs |-> LocInit]
    /\ ninv = 0
    /\ snap = <<>>
    /\ calls = <<>>
    /\ results = <<>>

Only(ops) == [p \in Procs |-> IF p = 1 THEN ops ELSE <<>>]

NoContainers ==
    /\ ecsClusters = {}
    /\ ecsServices = {}
    /\ ecrRepos = {}
    /\ eksClusters = {}
    /\ eksNodegroups = {}
    /\ policies = <<>>

MainConfig ==
    /\ monthly_budget = 100
    /\ email = "your.email@example.com"

\* main, once: budget present or absent, one Dev instance among the running ones,
\* stale and foreign alarms, one resource of each container kind
Init ==
    /\ InitProcesses(Only(MainOrder))
    /\ now \in Dates
    /\ MainConfig
    /\ \E n \in SUBSET {BudgetName(now)} : budgets = [x \in n |-> ForeignBudget(x)]
    /\ instances = [i \in InstanceIds |->
                      [state |-> "running",
                       tags |-> IF i = "i-1" THEN {<<"Environment", "Dev">>} ELSE {}]]
    /\ alarms = AlarmsOf({InstanceAlarmName(i) : i \in StaleIds} \cup {"ECS-LowCPU-web"})
    /\ ecsClusters = {"prod"}
    /\ ecsServices = {<<"prod", "web">>}
    /\ ecrRepos = {"app"}
    /\ eksClusters = {"a"}
    /\ eksNodegroups = {<<"a", "c">>}
    /\ policies = <<>>

Next ==
    \E p \in Procs :
        \/ Invoke(p)
        \/ BudgetNext(p)
        \/ MonitoringNext(p)
        \/ ShutdownNext(p)
        \/ ContainerNext(p)
        \/ CostNext(p)

Spec == Init /\ [][Next]_vars

\* create_or_update_budget_alert, invoked once
InitBudgetEnv ==
    /\ now \in Dates
    /\ monthly_budget \in {100, 250}
    /\ email \in {"your.email@example.com", "old@example.com"}
    /\ \E k \in BudgetStates : budgets = BudgetsOf(k)
    /\ instances = <<>>
    /\ alarms = <<>>
    /\ NoContainers

InitBudget == InitProcesses(Only(<<"budget">>)) /\ InitBudgetEnv

NextBudget == \E p \in Procs : Invoke(p) \/ BudgetNext(p)

SpecBudget == InitBudget /\ [][NextBudget]_vars

\* create_or_update_budget_alert, invoked by every process at once
InitRace ==
    /\ InitProcesses([p \in Procs |-> <<"budget">>])
    /\ now \in Dates
    /\ MainConfig
    /\ \E k \in BudgetStates : budgets = BudgetsOf(k)
    /\ instances = <<>>
    /\ alarms = <<>>
    /\ NoContainers

SpecRace == InitRace /\ [][NextBudget]_vars

\* manage_resource_monitoring, invoked twice in succession
InitMonitoring ==
    /\ InitProcesses(Only(<<"monitoring", "monitoring">>))
    /\ now \in {CHOOSE d \in Dates : TRUE}
    /\ MainConfig
    /\ budgets = <<>>
    /\ \E S \in SUBSET InstanceIds :
         instances \in [S -> {[state |-> st, tags |-> {}] : st \in {"running", "stopped"}}]
    /\ \E N \in SUBSET {InstanceAlarmName(i) : i \in InstanceIds \cup StaleIds} :
         alarms = AlarmsOf(N \cup {"ECS-LowCPU-web"})
    /\ NoContainers

NextMonitoring == \E p \in Procs : Invoke(p) \/ MonitoringNext(p)

SpecMonitoring == InitMonitoring /\ [][NextMonitoring]_vars

\* manage_resource_shutdown, invoked once
InitShutdown ==
    /\ InitProcesses(Only(<<"shutdown">>))
    /\ now \in {CHOOSE d \in Dates : TRUE}
    /\ MainConfig
    /\ budgets = <<>>
    /\ \E S \in SUBSET InstanceIds :
         instances \in [S -> {[state |-> st, tags |-> t] :
                                st \in {"running", "stopped"}, t \in TagSets}]
    /\ alarms = <<>>
    /\ NoContainers

NextShutdown == \E p \in Procs : Invoke(p) \/ ShutdownNext(p)

SpecShutdown == InitShutdown /\ [][NextShutdown]_vars

\* manage_container_resources, invoked once
InitContainer ==
    /\ InitProcesses(Only(<<"container">>))
    /\ now \in {CHOOSE d \in Dates : TRUE}
    /\ MainConfig
    /\ budgets = <<>>
    /\ instances = <<>>
    /\ alarms = <<>>
    /\ policies = <<>>
    /\ ecsClusters \in SUBSET {"prod", "dev"}
    /\ ecsServices \in SUBSET (ecsClusters \X {"web"})
    /\ ecrRepos \in SUBSET {"app"}
    /\ eksClusters \in SUBSET {"a", "a-b"}
    /\ eksNodegroups \in SUBSET (eksClusters \X {"c", "b-c"})

NextContainer == \E p \in Procs : Invoke(p) \/ ContainerNext(p)

SpecContainer == InitContainer /\ [][NextContainer]_vars

----------------------------------------------------------------------------
(* Reading the history *)

\* The remote calls of the k-th invocation, in order
CallsOf(k) == SelectSeq(calls, LAMBDA c : c.inv = k)

Returned(k) == \E i \in DOMAIN results : results[i].inv = k

ResultOf(k) == (CHOOSE r \in Range(results) : r.inv = k).ret

NoFailure(k) == \A i \in DOMAIN calls : calls[i].inv = k => calls[i].err = ""

\* The positions in cs of the calls of one API
At(cs, api) == {i \in DOMAIN cs : cs[i].api = api}

RunningAt(k) == {i \in DOMAIN snap[k].instances : snap[k].instances[i].state = "running"}

\* The 'LowCPU-' alarms present when invocation k began, and the names it wants
ExistingAt(k) == {n \in DOMAIN snap[k].alarms : StartsWith(n, "LowCPU-")}
DesiredAt(k) == {"LowCPU-" \o i : i \in RunningAt(k)}

----------------------------------------------------------------------------
(* C1: a manage_resource_monitoring run in which no remote call fails puts *)
(* exactly the alarms LowCPU-<id> of the running instances, each once and  *)
(* whether or not it existed, and deletes exactly the existing 'LowCPU-'   *)
(* alarms that are not wanted, in at most one delete_alarms call that      *)
(* comes after every put; it returns True.                                 *)
MonitoringReconciles ==
    \A k \in DOMAIN snap :
        (snap[k].op = "monitoring" /\ Returned(k) /\ NoFailure(k)) =>
            LET cs == CallsOf(k)
                puts == At(cs, "put_metric_alarm")
                dels == At(cs, "delete_alarms")
            IN /\ {cs[i].args : i \in puts} = {{n} : n \in DesiredAt(k)}
               /\ Cardinality(puts) = Cardinality(DesiredAt(k))
               /\ Cardinality(dels) <= 1
               /\ UNION {cs[i].args : i \in dels} = ExistingAt(k) \ DesiredAt(k)
               /\ \A i \in dels, j \in puts : j < i
               /\ ResultOf(k) = "True"

\* A run that updated an existing alarm, created a new one and deleted an obsolete one
MonitoringReconcilesWitness ==
    \E k \in DOMAIN snap :
        /\ snap[k].op = "monitoring" /\ Returned(k) /\ NoFailure(k)
        /\ DesiredAt(k) \cap ExistingAt(k) # {}
        /\ DesiredAt(k) \ ExistingAt(k) # {}
        /\ \E i \in At(CallsOf(k), "delete_alarms") :
              CallsOf(k)[i].args = ExistingAt(k) \ DesiredAt(k) /\ CallsOf(k)[i].args # {}

(* C2: when manage_resource_monitoring runs twice in succession, the       *)
(* running instances unchanged and no remote call failing, the remote      *)
(* alarms after the second run are those after the first run, and the      *)
(* second run issues no delete_alarms call.                                *)
MonitoringIdempotent ==
    \A k \in DOMAIN snap :
        (/\ k + 1 = Len(snap)
         /\ snap[k].op = "monitoring" /\ snap[k + 1].op = "monitoring"
         /\ Returned(k) /\ Returned(k + 1)
         /\ NoFailure(k) /\ NoFailure(k + 1)
         /\ RunningAt(k) = RunningAt(k + 1)) =>
            /\ alarms = snap[k + 1].alarms
            /\ At(CallsOf(k + 1), "delete_alarms") = {}

\* Two runs, the first of which put an alarm and deleted an obsolete one
MonitoringIdempotentWitness ==
    \E k \in DOMAIN snap :
        /\ k + 1 = Len(snap)
        /\ snap[k].op = "monitoring" /\ snap[k + 1].op = "monitoring"
        /\ Returned(k) /\ Returned(k + 1)
        /\ NoFailure(k) /\ NoFailure(k + 1)
        /\ At(CallsOf(k), "delete_alarms") # {}
        /\ At(CallsOf(k), "put_metric_alarm") # {}
        /\ snap[k].alarms # snap[k + 1].alarms

(* C5: when a put_metric_alarm call of manage_resource_monitoring fails,   *)
(* it is the last call of the run: the alarms put before it stay applied,  *)
(* no further instance gets a put, no delete_alarms call is issued, the    *)
(* obsolete alarms stay in place, and the operation returns False.         *)
MonitoringPutFailure ==
    \A k \in DOMAIN snap :
        LET cs == CallsOf(k)
            puts == At(cs, "put_metric_alarm")
        IN (snap[k].op = "monitoring" /\ \E i \in puts : cs[i].err # "") =>
            /\ cs[Len(cs)].api = "put_metric_alarm" /\ cs[Len(cs)].err # ""
            /\ \A i \in 1..(Len(cs) - 1) : cs[i].err = ""
            /\ At(cs, "delete_alarms") = {}
            /\ \A i, j \in puts : i # j => cs[i].args # cs[j].args
            /\ \A i \in puts : cs[i].args \subseteq DesiredAt(k)
            /\ Returned(k) /\ ResultOf(k) = "False"
            /\ k = Len(snap) =>
                 /\ \A i \in puts \ {Len(cs)} : \A n \in cs[i].args :
                       /\ n \in DOMAIN alarms
                       /\ alarms[n].Dimensions = cs[i].dims
                       /\ alarms[n].Namespace = "AWS/EC2"
                       /\ alarms[n].EvaluationPeriods = 24
                 /\ \A n \in cs[Len(cs)].args :
                       IF n \in DOMAIN snap[k].alarms
                       THEN n \in DOMAIN alarms /\ alarms[n] = snap[k].alarms[n]
                       ELSE n \notin DOMAIN alarms
                 /\ ExistingAt(k) \ DesiredAt(k) \subseteq DOMAIN alarms

\* One run whose first put failed with another instance still to go, then a run
\* whose first put was applied and whose second failed, an obsolete alarm in place
MonitoringPutFailureWitness ==
    \E k \in DOMAIN snap :
        /\ k + 1 = Len(snap)
        /\ snap[k].op = "monitoring" /\ snap[k + 1].op = "monitoring"
        /\ Cardinality(RunningAt(k)) >= 2
        /\ LET cs == CallsOf(k)
           IN Cardinality(At(cs, "put_metric_alarm")) = 1 /\ cs[Len(cs)].err # ""
        /\ LET cs == CallsOf(k + 1)
           IN /\ Cardinality(At(cs, "put_metric_alarm")) = 2
              /\ cs[Len(cs)].api = "put_metric_alarm" /\ cs[Len(cs)].err # ""
        /\ Returned(k + 1) /\ ResultOf(k + 1) = "False"
        /\ ExistingAt(k + 1) \ DesiredAt(k + 1) # {}

----------------------------------------------------------------------------
\* 'monthly-budget-YYYY-MM' of the current month, written out
CurrentBudgetName ==
    CASE now = [year |-> 2026, month |-> 11] -> "monthly-budget-2026-11"
      [] now = [year |-> 2027, month |-> 3] -> "monthly-budget-2027-03"

(* C3: in create_or_update_budget_alert, when the listing holds a budget   *)
(* named 'monthly-budget-YYYY-MM' for the current month, exactly one       *)
(* update_budget call and no create_budget call is issued; when it holds   *)
(* none, exactly one create_budget call and no update_budget call; either  *)
(* way the operation returns True if that call succeeds.                   *)
BudgetUpsertBranch ==
    \A k \in DOMAIN snap :
        (snap[k].op = "budget" /\ Returned(k) /\ CallsOf(k)[1].err = "") =>
            LET cs == CallsOf(k)
                ups == At(cs, "update_budget")
                crs == At(cs, "create_budget")
                one == IF CurrentBudgetName \in DOMAIN snap[k].budgets THEN ups ELSE crs
                none == IF CurrentBudgetName \in DOMAIN snap[k].budgets THEN crs ELSE ups
            IN /\ Cardinality(one) = 1
               /\ none = {}
               /\ \A i \in one :
                    /\ cs[i].args = {CurrentBudgetName}
                    /\ cs[i].err = "" => ResultOf(k) = "True"

\* The budget of the current month was listed and updated, and True returned
BudgetUpsertBranchWitness ==
    \E k \in DOMAIN snap :
        /\ snap[k].op = "budget" /\ Returned(k) /\ NoFailure(k)
        /\ CurrentBudgetName \in DOMAIN snap[k].budgets
        /\ Cardinality(DOMAIN snap[k].budgets) = 2
        /\ At(CallsOf(k), "update_budget") # {}
        /\ ResultOf(k) = "True"

(* C7: after a successful create_or_update_budget_alert the remote budget  *)
(* of the current month (limit, unit, time unit, and the 50/80/100 percent *)
(* ACTUAL notifications, each with the one email subscriber) is the same   *)
(* whether the create branch or the update branch was taken, that is, it   *)
(* is what the create branch leaves.                                       *)
BudgetSamePayload ==
    \A k \in DOMAIN snap :
        (snap[k].op = "budget" /\ k = Len(snap) /\ Returned(k) /\ ResultOf(k) = "True") =>
            /\ CurrentBudgetName \in DOMAIN budgets
            /\ budgets[CurrentBudgetName].budget.BudgetLimit =
                   [Amount |-> StrFloat(monthly_budget), Unit |-> "USD"]
            /\ budgets[CurrentBudgetName].budget.TimeUnit = "MONTHLY"
            /\ {<<n.NotificationType, n.Threshold, n.Subscribers>> :
                    n \in budgets[CurrentBudgetName].notifications}
                 = {<<"ACTUAL", t, {[SubscriptionType |-> "EMAIL", Address |-> email]}>> :
                        t \in {50, 80, 100}}

(* C9: two simultaneous create_or_update_budget_alert invocations are not  *)
(* safe against each other.  Nothing is checked between the listing and    *)
(* the write: an invocation that listed the budget as absent issues        *)
(* create_budget whatever has happened since, and one whose create is      *)
(* rejected as a duplicate returns False although the budget exists.       *)
BudgetRace ==
    \A p \in Procs :
        LET k == loc[p].inv
            cs == CallsOf(k)
        IN (loc[p].op = "budget" /\ Returned(k)) =>
            /\ loc[p].listed = "absent" =>
                 /\ Len(cs) = 2
                 /\ cs[2].api = "create_budget"
            /\ cs[Len(cs)].err = "DuplicateRecordException" =>
                 /\ ResultOf(k) = "False"
                 /\ CurrentBudgetName \in DOMAIN budgets

\* Both invocations listed the budget as absent and both issued create_budget; one
\* created it, the other was rejected as a duplicate and returned False
BudgetRaceWitness ==
    \E p, q \in Procs :
        /\ p # q
        /\ loc[p].listed = "absent" /\ loc[q].listed = "absent"
        /\ Returned(loc[p].inv) /\ Returned(loc[q].inv)
        /\ CallsOf(loc[p].inv)[2].api = "create_budget"
        /\ CallsOf(loc[p].inv)[2].err = ""
        /\ ResultOf(loc[p].inv) = "True"
        /\ CallsOf(loc[q].inv)[2].api = "create_budget"
        /\ CallsOf(loc[q].inv)[2].err = "DuplicateRecordException"
        /\ ResultOf(loc[q].inv) = "False"
        /\ CurrentBudgetName \in DOMAIN budgets

----------------------------------------------------------------------------
(* C4, as stated: in each of the four top-level operations a failed remote *)
(* call is the operation's last call (no further call, no retry) and the   *)
(* operation returns False.                                                *)
FailureAborts ==
    \A i \in DOMAIN calls :
        (calls[i].op \in {"budget", "monitoring", "shutdown", "container"}
            /\ calls[i].err # "") =>
            /\ \A j \in DOMAIN calls : j > i => calls[j].inv # calls[i].inv
            /\ Returned(calls[i].inv)
            /\ ResultOf(calls[i].inv) = "False"

(* C4, amended: that holds of every remote call but the describe_budgets   *)
(* of create_or_update_budget_alert.  A failed describe_budgets is caught  *)
(* where it is made, the budget counts as absent, and the operation goes   *)
(* on to one create_budget call, whose outcome decides what it returns.    *)
FailureAbortsButListing ==
    \A i \in DOMAIN calls :
        (calls[i].op \in {"budget", "monitoring", "shutdown", "container"}
            /\ calls[i].err # "") =>
            IF calls[i].api = "describe_budgets"
            THEN LET cs == CallsOf(calls[i].inv)
                 IN /\ Len(cs) <= 2
                    /\ Returned(calls[i].inv) <=> Len(cs) = 2
                    /\ Len(cs) = 2 =>
                         /\ cs[2].api = "create_budget"
                         /\ ResultOf(calls[i].inv) =
                                (IF cs[2].err = "" THEN "True" ELSE "False")
            ELSE /\ \A j \in DOMAIN calls : j > i => calls[j].inv # calls[i].inv
                 /\ Returned(calls[i].inv)
                 /\ ResultOf(calls[i].inv) = "False"

\* A run of main in which a remote call failed in each of the four operations, each
\* returned False, and a failed describe_budgets was followed by create_budget
FailureAbortsButListingWitness ==
    /\ \A o \in {"budget", "monitoring", "shutdown", "container"} :
          \E k \in DOMAIN snap :
              /\ snap[k].op = o
              /\ Returned(k) /\ ResultOf(k) = "False"
              /\ CallsOf(k)[Len(CallsOf(k))].err # ""
    /\ \E i \in DOMAIN calls :
          /\ calls[i].api = "describe_budgets" /\ calls[i].err # ""
          /\ calls[i + 1].api = "create_budget"
    /\ \E i \in DOMAIN calls :
          /\ calls[i].api = "put_metric_alarm" /\ calls[i].err = ""
          /\ calls[i + 1].api = "put_metric_alarm" /\ calls[i + 1].err # ""

\* The running instances with an accepted Environment tag when invocation k began
ShutdownCandidatesAt(k) ==
    {i \in DOMAIN snap[k].instances :
        /\ snap[k].instances[i].state = "running"
        /\ \E v \in {"Development", "Testing", "Dev", "Test"} :
              <<"Environment", v>> \in snap[k].instances[i].tags}

(* C6: manage_resource_shutdown passes to stop_instances exactly the       *)
(* instances that are running and carry an Environment tag with a value in *)
(* {Development, Testing, Dev, Test}, in one call; when there is no such   *)
(* instance it issues no stop_instances call and returns True.             *)
ShutdownStopsCandidates ==
    \A k \in DOMAIN snap :
        (snap[k].op = "shutdown" /\ Returned(k)) =>
            LET cs == CallsOf(k)
                stops == At(cs, "stop_instances")
            IN /\ \A i \in stops : cs[i].args = ShutdownCandidatesAt(k)
               /\ Cardinality(stops) <= 1
               /\ cs[1].err # "" => stops = {}
               /\ cs[1].err = "" =>
                    IF ShutdownCandidatesAt(k) = {}
                    THEN stops = {} /\ ResultOf(k) = "True"
                    ELSE Cardinality(stops) = 1

\* stop_instances was called while an instance that is stopped, untagged or tagged
\* otherwise was left out
ShutdownStopsCandidatesWitness ==
    \E k \in DOMAIN snap :
        /\ snap[k].op = "shutdown" /\ Returned(k) /\ ResultOf(k) = "True"
        /\ \E i \in At(CallsOf(k), "stop_instances") :
              /\ CallsOf(k)[i].args # {}
              /\ DOMAIN snap[k].instances \ CallsOf(k)[i].args # {}
              /\ \A j \in CallsOf(k)[i].args : instances[j].state = "stopping"

(* C8: two distinct monitored resources never get the same alarm name: two *)
(* put_metric_alarm calls with the same alarm name carry the same          *)
(* dimensions (the instance, the ECS cluster and service, the repository,  *)
(* the EKS cluster, the EKS cluster and node group).                       *)
AlarmNamesCollisionFree ==
    \A i, j \in DOMAIN calls :
        (/\ calls[i].api = "put_metric_alarm"
         /\ calls[j].api = "put_metric_alarm"
         /\ calls[i].args = calls[j].args) => calls[i].dims = calls[j].dims

(* The safety part of C10: main invokes the operations in the order        *)
(* budget, EC2 monitoring, shutdown, container resources, cost summary,    *)
(* container cost summary; a remote-call failure inside one of them        *)
(* becomes that operation's return (False, or {} for the summaries), and   *)
(* the operations after it are still to come.                              *)
MainSequence ==
    LET order == <<"budget", "monitoring", "shutdown", "container", "cost",
                   "container_cost">>
    IN /\ Len(snap) <= 6
       /\ \A k \in DOMAIN snap : snap[k].op = order[k]
       /\ queue[1] = SubSeq(order, Len(snap) + 1, 6)
       /\ Len(results) = (IF pc[1] = "idle" THEN Len(snap) ELSE Len(snap) - 1)
       /\ \A i \in DOMAIN results :
            /\ results[i].inv = i
            /\ LET cs == CallsOf(i)
               IN cs[Len(cs)].err # "" =>
                    results[i].ret = (IF i <= 4 THEN "False" ELSE "{}")

SpecFair == Spec /\ WF_vars(Next)

----------------------------------------------------------------------------
\* The sub-step of manage_container_resources a call belongs to: 1 ECS, 2 ECR, 3 EKS
SubStepOf(c) ==
    IF c.api = "put_metric_alarm"
    THEN IF \E n \in c.args : StartsWith(n, "ECS-") THEN 1
         ELSE IF \E n \in c.args : StartsWith(n, "ECR-") THEN 2 ELSE 3
    ELSE IF StartsWith(c.api, "ecs.") THEN 1
         ELSE IF StartsWith(c.api, "ecr.") THEN 2 ELSE 3

(* C11: manage_container_resources runs its sub-steps in the order ECS,    *)
(* ECR, EKS, all three when nothing fails.  A failed remote call is the    *)
(* operation's last call, so the later sub-steps issue none, and the       *)
(* operation returns False; the alarms and lifecycle policies put before   *)
(* the failure stay applied; and no delete_alarms call is ever issued.     *)
ContainerSubSteps ==
    \A k \in DOMAIN snap :
        snap[k].op = "container" =>
            LET cs == CallsOf(k)
            IN /\ \A i, j \in DOMAIN cs : i < j => SubStepOf(cs[i]) <= SubStepOf(cs[j])
               /\ At(cs, "delete_alarms") = {}
               /\ \A i \in DOMAIN cs : cs[i].err # "" =>
                    /\ i = Len(cs)
                    /\ Returned(k) /\ ResultOf(k) = "False"
               /\ (Returned(k) /\ NoFailure(k)) =>
                    /\ ResultOf(k) = "True"
                    /\ \E a \in At(cs, "ecs.list_clusters"),
                          b \in At(cs, "ecr.describe_repositories"),
                          c \in At(cs, "eks.list_clusters") : a < b /\ b < c
               /\ k = Len(snap) =>
                    /\ \A i \in At(cs, "put_metric_alarm") : cs[i].err = "" =>
                         \A n \in cs[i].args :
                            /\ n \in DOMAIN alarms
                            /\ \/ alarms[n].Dimensions = cs[i].dims
                               \/ \E j \in At(cs, "put_metric_alarm") :
                                     /\ j > i /\ cs[j].err = "" /\ cs[j].args = cs[i].args
                                     /\ alarms[n].Dimensions = cs[j].dims
                    /\ \A i \in At(cs, "ecr.put_lifecycle_policy") : cs[i].err = "" =>
                         \A r \in cs[i].args :
                            r \in DOMAIN policies /\ policies[r] = LifecyclePolicyText

\* The ECR alarm failed after an ECS alarm and a lifecycle policy were put: both are
\* in place, EKS clusters exist and no EKS call was issued, and False was returned
ContainerSubStepsWitness ==
    \E k \in DOMAIN snap :
        LET cs == CallsOf(k)
        IN /\ snap[k].op = "container" /\ Returned(k) /\ ResultOf(k) = "False"
           /\ SubStepOf(cs[Len(cs)]) = 2 /\ cs[Len(cs)].api = "put_metric_alarm"
           /\ \E i \in At(cs, "put_metric_alarm") :
                 SubStepOf(cs[i]) = 1 /\ cs[i].args \subseteq DOMAIN alarms
           /\ \E i \in At(cs, "ecr.put_lifecycle_policy") : cs[i].args \subseteq DOMAIN policies
           /\ eksClusters # {} /\ eksNodegroups # {}
           /\ \A i \in DOMAIN cs : SubStepOf(cs[i]) # 3

====
